---- MODULE Spec2Model ----
(***************************************************************************)
(* Temple/Belton deal analyzer: the funnel pipeline of src/src/analyze.js, *)
(* the RentCast wrapper (src/unnamed/part_001), the configuration          *)
(* (src/unnamed/part_000) and the entry point (src/unnamed/part_002).      *)
(*                                                                         *)
(* JavaScript numbers are modelled as exact fractions [num, den]; den = 0  *)
(* stands for the non-finite values (0/0 is NaN, 1/0 is Infinity).  An     *)
(* absent object property reads as Undefined.  Descriptive listing fields  *)
(* that the pipeline only copies (address, bedrooms, photo, rent range...) *)
(* are left out of the records.                                            *)
(***************************************************************************)
EXTENDS Integers, Sequences, FiniteSets, TLC

VARIABLES
    pc,            \* position of main / processMarket / the RentCast wrapper
    clock,         \* number of the current run; stands for new Date()
    mIdx,          \* index into config.markets of the `for` loop of main
    cIdx,          \* index into market.cities of getListingsForMarket
    allListings,   \* getListingsForMarket: allListings; then rawListings
    topCandidates, \* processMarket: filteredListings, then topCandidates
    i,             \* enrichWithRentEstimates: loop index (1-based here)
    enriched,      \* enrichWithRentEstimates: enriched; then withMetrics, topDeals
    pending,       \* the response a wrapper call holds while it awaits delay()
    output,        \* the MarketOutput processMarket returned
    results,       \* main: results, market id -> MarketOutput
    file,          \* the persisted JSON file of each market: << >> or << content >>
    apiCallCount,  \* rentcast: apiCallCount
    outstanding,   \* number of api.get requests in flight
    sinceCall,     \* what happened since the last api.get settled
    exitKind,      \* which return of processMarket produced `output`
    log,           \* history: the responses received for the current market and
                   \* the properties whose rent estimate was requested
    failed,        \* history: markets whose processMarket caught an error this run
    persisted,     \* history: market ids written by writeOutput this run, in order
    fileBefore,    \* history: `file` as it was when the run started
    gapOk,         \* history: every api.get so far was issued after the pause
    metricsIn,     \* history: the argument of the last calculateInvestmentMetrics
    requestsIssued, \* history: number of api.get calls made in the current run
    fkind, fop, fin, fout   \* a single function applied to a drawn input

vars == << pc, clock, mIdx, cIdx, allListings, topCandidates, i, enriched, pending,
           output, results, file, apiCallCount, outstanding, sinceCall, exitKind,
           log, failed, persisted, fileBefore, gapOk, metricsIn, requestsIssued,
           fkind, fop, fin, fout >>

progVars == << pc, clock, mIdx, cIdx, allListings, topCandidates, i, enriched, pending,
               output, results, file, apiCallCount, outstanding, sinceCall, exitKind,
               log, failed, persisted, fileBefore, gapOk, metricsIn,
               requestsIssued >>

pureVars == << fkind, fop, fin, fout >>

-----------------------------------------------------------------------------
\* Bounds of the model.

\* Longest sequence handed to a single function.
MaxLen == 3

\* Number of runs of main that are followed.
MaxRuns == 2

\* config.analysis.maxPropertiesToAnalyze (50 in the shipped configuration),
\* scaled down so that the truncation happens on short sequences.
maxPropertiesToAnalyze == 2

\* config.analysis.topDealsCount (10 in the shipped configuration), scaled down.
topDealsCount == 2

-----------------------------------------------------------------------------
\* JavaScript values.

\* The value of an absent property.
Undefined == -1

\* !x for a property that is a number or absent.
Falsy(x) == x = Undefined \/ x = 0

NaN == [num |-> 0, den |-> 0]

Infinity == [num |-> 1, den |-> 0]

Zero == [num |-> 0, den |-> 1]

IsNaN(q) == q.den = 0 /\ q.num = 0

IsFinite(q) == q.den # 0

RECURSIVE GCD(_, _)
GCD(a, b) == IF b = 0 THEN a ELSE GCD(b, a % b)

Abs(n) == IF n < 0 THEN 0 - n ELSE n

\* n / d as a number, d >= 0.
Frac(n, d) ==
    IF d = 0 THEN (IF n = 0 THEN NaN ELSE Infinity)
    ELSE LET g == GCD(Abs(n), d) IN [num |-> n \div g, den |-> d \div g]

\* ToNumber of a property that is a number or absent.
ToNumber(x) == IF x = Undefined THEN NaN ELSE [num |-> x, den |-> 1]

\* q * k and q / k for a number q and an integer k > 0.
Times(q, k) == IF ~IsFinite(q) THEN q ELSE Frac(q.num * k, q.den)

DividedBy(q, k) == IF ~IsFinite(q) THEN q ELSE Frac(q.num, q.den * k)

Plus(a, b) ==
    IF ~IsFinite(a) \/ ~IsFinite(b) THEN NaN
    ELSE Frac(a.num * b.den + b.num * a.den, a.den * b.den)

\* a >= b and a > b on numbers; every comparison with NaN is false.
GE(a, b) == IsFinite(a) /\ IsFinite(b) /\ a.num * b.den >= b.num * a.den

GT(a, b) == IsFinite(a) /\ IsFinite(b) /\ a.num * b.den > b.num * a.den

\* Math.round(q): the nearest integer, halves towards +Infinity.
MathRound(q) == (2 * q.num + q.den) \div (2 * q.den)

\* Math.round(q * 10) / 10.
RoundTo1Decimal(q) == IF ~IsFinite(q) THEN q ELSE Frac(MathRound(Times(q, 10)), 10)

Min2(a, b) == IF a <= b THEN a ELSE b

\* { ...obj, ...extra }
Spread(obj, extra) ==
    [f \in (DOMAIN obj) \cup (DOMAIN extra) |->
        IF f \in DOMAIN extra THEN extra[f] ELSE obj[f]]

\* array.filter(keep)
RECURSIVE FilterSeq(_, _)
FilterSeq(s, keepSet) ==
    IF s = << >> THEN << >>
    ELSE IF Head(s) \in keepSet THEN << Head(s) >> \o FilterSeq(Tail(s), keepSet)
         ELSE FilterSeq(Tail(s), keepSet)

\* array.slice(0, n)
Slice(s, n) == SubSeq(s, 1, Min2(n, Len(s)))

Front(s) == SubSeq(s, 1, Len(s) - 1)

\* The first position of `sorted` whose key is strictly below that of x.
InsertPos(sorted, x, field) ==
    LET lower == { j \in 1..Len(sorted) : GT(x[field], sorted[j][field]) }
    IN  IF lower = {} THEN Len(sorted) + 1
        ELSE CHOOSE j \in lower : \A k \in lower : j <= k

\* array.sort((a, b) => b[field] - a[field]) for a consistent comparator:
\* descending, and stable (elements with equal keys keep their order).
RECURSIVE SortDesc(_, _)
SortDesc(s, field) ==
    IF s = << >> THEN << >>
    ELSE LET sorted == SortDesc(Front(s), field)
             x == s[Len(s)]
             p == InsertPos(sorted, x, field)
         IN  SubSeq(sorted, 1, p - 1) \o << x >> \o SubSeq(sorted, p, Len(sorted))

Perms(s) ==
    { [k \in 1..Len(s) |-> s[p[k]]] :
        p \in { q \in [1..Len(s) -> 1..Len(s)] :
                  \A a, b \in 1..Len(s) : q[a] = q[b] => a = b } }

\* b[field] - a[field] is NaN when either key is NaN, and sort reads NaN as 0.
\* That comparator is consistent only if all the other keys are equal; if it
\* is not, the order sort leaves is implementation-defined.
ConsistentKeys(s, field) ==
    \/ \A k \in 1..Len(s) : ~IsNaN(s[k][field])
    \/ \A a, b \in 1..Len(s) :
          (~IsNaN(s[a][field]) /\ ~IsNaN(s[b][field])) => s[a][field] = s[b][field]

SortOutcomes(s, field) ==
    IF ConsistentKeys(s, field) THEN { SortDesc(s, field) } ELSE Perms(s)

-----------------------------------------------------------------------------
\* Configuration (src/unnamed/part_000).

minYieldThreshold == 6

heuristicRentPerSqft == 1

\* propertyTaxRate 0.024, vacancyRate 0.08, managementFee 0.10, in thousandths.
propertyTaxRatePerMille == 24

vacancyRatePerMille == 80

managementFeePerMille == 100

markets ==
    << [id |-> "temple-belton", name |-> "Temple / Belton",
        cities |-> << "Temple", "Belton" >>],
       [id |-> "harker-heights", name |-> "Harker Heights",
        cities |-> << "Harker Heights" >>] >>

MarketIds == { markets[k].id : k \in 1..Len(markets) }

-----------------------------------------------------------------------------
\* Deal analysis (src/src/analyze.js).

calculateGrossYield(annualRent, price) ==
    IF Falsy(price) THEN Zero
    ELSE Times(DividedBy(annualRent, price), 100)

\* Math.round of the monthly cash flow; all amounts over the common
\* denominator 12000.
calculateMonthlyCashFlow(monthlyRent, price) ==
    LET monthlyTaxes12000 == price * propertyTaxRatePerMille
        vacancyLoss12000 == 12 * monthlyRent * vacancyRatePerMille
        managementCost12000 == 12 * monthlyRent * managementFeePerMille
        estimatedExpenses12000 == monthlyTaxes12000 + vacancyLoss12000 + managementCost12000
    IN  MathRound(Frac(12000 * monthlyRent - estimatedExpenses12000, 12000))

\* The heuristic yield of lines 60-62 and 83-84.
heuristicYieldOf(listing) ==
    LET estimatedMonthlyRent == Times(ToNumber(listing.squareFootage), heuristicRentPerSqft)
        estimatedAnnualRent == Times(estimatedMonthlyRent, 12)
    IN  calculateGrossYield(estimatedAnnualRent, listing.price)

\* passesHeuristicFilter with `>` in place of `>=` on line 65.
passesHeuristicFilterStrict(listing) ==
    IF Falsy(listing.price) \/ Falsy(listing.squareFootage) THEN FALSE
    ELSE GT(heuristicYieldOf(listing), ToNumber(minYieldThreshold))

\* Stage 1, the predicate of listings.filter.
passesHeuristicFilter(listing) ==
    IF Falsy(listing.price) \/ Falsy(listing.squareFootage) THEN FALSE
    ELSE GE(heuristicYieldOf(listing), ToNumber(minYieldThreshold))

\* applyHeuristicFilter letting every listing through.
applyHeuristicFilterKeepAll(listings) == listings

applyHeuristicFilter(listings) ==
    FilterSeq(listings, { l \in { listings[k] : k \in 1..Len(listings) } :
                            passesHeuristicFilter(l) })

withHeuristicYield(listings) ==
    [k \in 1..Len(listings) |->
        Spread(listings[k], [heuristicYield |-> heuristicYieldOf(listings[k])])]

\* selectTopCandidates without the sort of line 92.
selectTopCandidatesUnsorted(listings) ==
    { Slice(withHeuristicYield(listings), maxPropertiesToAnalyze) }

\* selectTopCandidates without the slice of line 95.
selectTopCandidatesUncapped(listings) ==
    SortOutcomes(withHeuristicYield(listings), "heuristicYield")

\* Stage 2: the set of results sort can leave (one, unless a key is NaN).
selectTopCandidates(listings) ==
    { Slice(sorted, maxPropertiesToAnalyze) :
        sorted \in SortOutcomes(withHeuristicYield(listings), "heuristicYield") }

\* Stage 3, the body of listings.map.
investmentMetricsOf(listing) ==
    LET monthlyRent == listing.rentEstimate
        annualRent == monthlyRent * 12
        grossYield == calculateGrossYield(ToNumber(annualRent), listing.price)
        monthlyCashFlow == calculateMonthlyCashFlow(monthlyRent, listing.price)
        grm == Frac(listing.price, annualRent)
        onePercentRule == monthlyRent * 100 >= listing.price
    IN  Spread(listing,
               [grossYield |-> RoundTo1Decimal(grossYield),
                monthlyCashFlow |-> monthlyCashFlow,
                annualRent |-> annualRent,
                grm |-> RoundTo1Decimal(grm),
                meetsOnePercentRule |-> onePercentRule])

calculateInvestmentMetrics(listings) ==
    [k \in 1..Len(listings) |-> investmentMetricsOf(listings[k])]

\* rankAndSelectTopDeals without the sort of line 147.
rankAndSelectTopDealsUnsorted(listings) == Slice(listings, topDealsCount)

\* Stage 4.
rankAndSelectTopDeals(listings) ==
    Slice(SortDesc(listings, "grossYield"), topDealsCount)

formatDealForOutput(listing, rank) ==
    [rank |-> rank,
     id |-> listing.id,
     price |-> listing.price,
     squareFootage |-> listing.squareFootage,
     estMonthlyRent |-> listing.rentEstimate,
     estAnnualRent |-> listing.annualRent,
     grossYield |-> listing.grossYield,
     estMonthlyCashFlow |-> listing.monthlyCashFlow,
     grm |-> listing.grm,
     meetsOnePercentRule |-> listing.meetsOnePercentRule,
     marketId |-> listing.marketId,
     marketName |-> listing.marketName]

RECURSIVE SumYield(_)
SumYield(deals) ==
    IF deals = << >> THEN Zero
    ELSE Plus(SumYield(Front(deals)), deals[Len(deals)].grossYield)

RECURSIVE SumField(_, _)
SumField(deals, field) ==
    IF deals = << >> THEN 0
    ELSE SumField(Front(deals), field) + deals[Len(deals)][field]

\* Math.min(...formattedDeals.map(d => d.price))
MinPrice(formattedDeals) ==
    CHOOSE p \in { formattedDeals[k].price : k \in 1..Len(formattedDeals) } :
        \A k \in 1..Len(formattedDeals) : p <= formattedDeals[k].price

\* lowestPriceOf taking the price of the last deal instead of the minimum.
lowestPriceOfLast(formattedDeals) ==
    IF Len(formattedDeals) > 0 THEN formattedDeals[Len(formattedDeals)].price ELSE 0

\* lowestPrice of line 241.
lowestPriceOf(formattedDeals) ==
    IF Len(formattedDeals) > 0 THEN MinPrice(formattedDeals) ELSE 0

\* rankOf handing the 0-based index on as the rank.
rankOfZeroBased(index) == index

\* The rank handed to formatDealForOutput for the deal at 0-based `index`.
rankOf(index) == index + 1

\* avgYieldOf without the deals.length > 0 guard: 0 / 0.
avgYieldOfUnguarded(deals) ==
    RoundTo1Decimal(Frac(SumYield(deals).num, SumYield(deals).den * Len(deals)))

\* avgYield of lines 217-219.
avgYieldOf(deals) ==
    IF Len(deals) > 0
    THEN RoundTo1Decimal(DividedBy(SumYield(deals), Len(deals)))
    ELSE Zero

\* `now` stands for new Date().toISOString().
createMarketOutput(deals, market, now) ==
    LET formattedDeals ==
            [k \in 1..Len(deals) |-> formatDealForOutput(deals[k], rankOf(k - 1))]
        avgYield == avgYieldOf(deals)
        avgPrice == IF Len(deals) > 0
                    THEN MathRound(Frac(SumField(deals, "price"), Len(deals)))
                    ELSE 0
        avgRent == IF Len(deals) > 0
                   THEN MathRound(Frac(SumField(deals, "rentEstimate"), Len(deals)))
                   ELSE 0
    IN  [market |-> [id |-> market.id, name |-> market.name],
         lastUpdated |-> now,
         summary |-> [totalDeals |-> Len(formattedDeals),
                      avgGrossYield |-> avgYield,
                      avgPrice |-> avgPrice,
                      avgMonthlyRent |-> avgRent,
                      topYield |-> IF Len(formattedDeals) > 0
                                   THEN formattedDeals[1].grossYield ELSE Zero,
                      lowestPrice |-> lowestPriceOf(formattedDeals)],
         deals |-> formattedDeals]

-----------------------------------------------------------------------------
\* What the RentCast API can answer.

ApiListing(id, price, sqft) == [id |-> id, price |-> price, squareFootage |-> sqft]

\* A and B are the listings of the end-to-end example; F sits on the threshold.
ListingA == ApiListing("A", 200000, 1600)

ListingB == ApiListing("B", 300000, 1200)

ListingC == ApiListing("C", 250000, 2500)

ListingD == ApiListing("D", Undefined, 1000)

ListingE == ApiListing("E", 150000, Undefined)

ListingF == ApiListing("F", 200000, 1000)

ListingG == ApiListing("G", 100000, 0)

\* response.data of GET /listings/sale: an array, null, or something that is
\* no array (an error object, a page of text).
ListingsData ==
    { [kind |-> "array", items |-> << ListingB, ListingD, ListingE >>],
      [kind |-> "array", items |-> << ListingB, ListingA, ListingC >>],
      [kind |-> "null", items |-> << >>],
      [kind |-> "object", items |-> << >>] }

ListingsFailure == [kind |-> "error", items |-> << >>]

\* response.data of GET /avm/rent: null, or a record whose rent is a number
\* or absent.
RentData ==
    { [kind |-> "null", rent |-> Undefined],
      [kind |-> "object", rent |-> Undefined],
      [kind |-> "object", rent |-> 0],
      [kind |-> "object", rent |-> 1800] }

RentFailure == [kind |-> "error", rent |-> Undefined]

-----------------------------------------------------------------------------
\* RentCast wrapper (src/unnamed/part_001).

\* const listings = response.data || []
listingsOf(data) == IF data.kind = "null" THEN [kind |-> "array", items |-> << >>] ELSE data

\* listings.map(listing => ({ ...listing, marketId, marketName }))
enrichedListings(items, market) ==
    [k \in 1..Len(items) |->
        Spread(items[k], [marketId |-> market.id, marketName |-> market.name])]

\* acceptsRentData testing only `if (rentData)`.
acceptsAnyRentRecord(rentData) == rentData.kind = "object"

\* acceptsRentData testing only that rent is present (rent !== undefined).
acceptsRentDataDefined(rentData) ==
    rentData.kind = "object" /\ rentData.rent # Undefined

\* if (rentData && rentData.rent)
acceptsRentData(rentData) ==
    rentData.kind = "object" /\ ~Falsy(rentData.rent)

\* enriched.push({ ...property, rentEstimate: rentData.rent, ... })
withRentEstimate(property, rentData) ==
    Spread(property, [rentEstimate |-> rentData.rent])

-----------------------------------------------------------------------------
\* Entry point (src/unnamed/part_002).

Market == markets[mIdx]

\* JSON.stringify writes a non-finite number as null.
JsonNull == [num |-> 0 - 1, den |-> 0]

JsonNumber(q) == IF IsFinite(q) THEN q ELSE JsonNull

\* JSON.parse(JSON.stringify(data, null, 2)): what a file holds once written.
toJSON(data) ==
    [data EXCEPT
        !.summary = [@ EXCEPT !.avgGrossYield = JsonNumber(@),
                              !.topYield = JsonNumber(@)],
        !.deals = [k \in 1..Len(@) |->
                      [@[k] EXCEPT !.grossYield = JsonNumber(@),
                                   !.grm = JsonNumber(@)]]]

\* validateOutput without the safeguard.
validateOutputAlwaysNew(data, existing) == data

\* `existing` is << >> when the file does not exist, << content >> otherwise.
validateOutput(data, existing) ==
    IF Len(data.deals) = 0 /\ existing # << >>
    THEN IF Len(existing[1].deals) > 0 THEN existing[1] ELSE data
    ELSE data

writeOutput(data) == << toJSON(data) >>

\* Nothing received, nothing asked for yet.
EmptyLog == [listings |-> << >>, rents |-> << >>, requested |-> << >>]

Init ==
    /\ pc = "idle"
    /\ clock = 0
    /\ mIdx = 1
    /\ cIdx = 1
    /\ allListings = << >>
    /\ topCandidates = << >>
    /\ i = 1
    /\ enriched = << >>
    /\ pending = << >>
    /\ output = << >>
    /\ results = << >>
    /\ file = [m \in MarketIds |-> << >>]
    /\ apiCallCount = 0
    /\ outstanding = 0
    /\ sinceCall = "none"
    /\ exitKind = "none"
    /\ log = EmptyLog
    /\ failed = {}
    /\ persisted = << >>
    /\ fileBefore = [m \in MarketIds |-> << >>]
    /\ gapOk = TRUE
    /\ metricsIn = << >>
    /\ requestsIssued = 0
    /\ fkind = "none" /\ fop = "none" /\ fin = << >> /\ fout = << >>

\* main, lines 121-124: a run starts.
StartRun ==
    /\ pc = "idle"
    /\ clock < MaxRuns
    /\ clock' = clock + 1
    /\ apiCallCount' = 0
    /\ results' = << >>
    /\ mIdx' = 1
    /\ pc' = "processMarket"
    /\ outstanding' = 0
    /\ sinceCall' = "none"
    /\ gapOk' = TRUE
    /\ failed' = {}
    /\ persisted' = << >>
    /\ fileBefore' = file
    /\ UNCHANGED << cIdx, allListings, topCandidates, i, enriched, pending, output,
                    file, exitKind, log, metricsIn >>
    /\ requestsIssued' = 0
    /\ UNCHANGED pureVars

\* main calls processMarket, which calls getListingsForMarket (lines 113-115).
ProcessMarket ==
    /\ pc = "processMarket"
    /\ allListings' = << >>
    /\ cIdx' = 1
    /\ topCandidates' = << >>
    /\ i' = 1
    /\ enriched' = << >>
    /\ pending' = << >>
    /\ output' = << >>
    /\ exitKind' = "none"
    /\ log' = EmptyLog
    /\ metricsIn' = << >>
    /\ pc' = "getListings"
    /\ UNCHANGED << clock, mIdx, results, file, apiCallCount, outstanding, sinceCall,
                    failed, persisted, fileBefore, gapOk >>
    /\ UNCHANGED requestsIssued
    /\ UNCHANGED pureVars

\* An api.get is issued: one more request in flight.  gapOk records whether
\* the pause has elapsed since the request before it settled.
IssueRequest ==
    /\ outstanding' = outstanding + 1
    /\ requestsIssued' = requestsIssued + 1
    /\ gapOk' = (gapOk /\ sinceCall \in { "none", "paused" })
    /\ sinceCall' = "inFlight"

\* CatchError letting the error escape to main's own catch: the run ends.
CatchErrorRethrown ==
    /\ output' = createMarketOutput(<< >>, markets[mIdx], clock)
    /\ exitKind' = "error"
    /\ failed' = failed \cup { markets[mIdx].id }
    /\ pc' = "summary"

\* processMarket's catch block (lines 73-76).
CatchError ==
    /\ output' = createMarketOutput(<< >>, Market, clock)
    /\ exitKind' = "error"
    /\ failed' = failed \cup { Market.id }
    /\ pc' = "persist"

\* getListings up to `await api.get` (lines 36-49).
GetListingsRequest ==
    /\ pc = "getListings"
    /\ IssueRequest
    /\ pc' = "awaitListings"
    /\ UNCHANGED << clock, mIdx, cIdx, allListings, topCandidates, i, enriched, pending,
                    output, results, file, apiCallCount, exitKind, log, failed,
                    persisted, fileBefore, metricsIn >>
    /\ UNCHANGED pureVars

\* The request resolves (lines 49-56): count it, then await delay().
GetListingsResponse ==
    /\ pc = "awaitListings"
    /\ \E data \in ListingsData :
          /\ pending' = << listingsOf(data) >>
          /\ log' = [log EXCEPT !.listings = Append(@, data)]
    /\ apiCallCount' = apiCallCount + 1
    /\ outstanding' = outstanding - 1
    /\ sinceCall' = "settled"
    /\ pc' = "delayListings"
    /\ UNCHANGED << clock, mIdx, cIdx, allListings, topCandidates, i, enriched, output,
                    results, file, exitKind, failed, persisted, fileBefore, gapOk,
                    metricsIn >>
    /\ UNCHANGED requestsIssued
    /\ UNCHANGED pureVars

\* The rest of getListingsForMarket's loop body for the value getListings
\* returned (lines 116-126), and the loop's next test.
ListingsReturned(listings) ==
    IF listings.kind # "array"
    THEN \* listings.map is not a function: a TypeError, caught by processMarket
         /\ CatchError
         /\ UNCHANGED << allListings, cIdx >>
    ELSE /\ allListings' = allListings \o enrichedListings(listings.items, Market)
         /\ cIdx' = cIdx + 1
         /\ pc' = IF cIdx < Len(Market.cities) THEN "getListings" ELSE "filter"
         /\ UNCHANGED << output, exitKind, failed >>

\* The request rejects (lines 59-66): getListings returns [] at once.
GetListingsError ==
    /\ pc = "awaitListings"
    /\ log' = [log EXCEPT !.listings = Append(@, ListingsFailure)]
    /\ outstanding' = outstanding - 1
    /\ sinceCall' = "settled"
    /\ ListingsReturned([kind |-> "array", items |-> << >>])
    /\ UNCHANGED << clock, mIdx, topCandidates, i, enriched, pending, results, file,
                    apiCallCount, persisted, fileBefore, gapOk, metricsIn >>
    /\ UNCHANGED requestsIssued
    /\ UNCHANGED pureVars

\* delay() is over (lines 56-58): getListings returns the listings.
GetListingsDelayed ==
    /\ pc = "delayListings"
    /\ sinceCall' = "paused"
    /\ pending' = << >>
    /\ ListingsReturned(pending[1])
    /\ UNCHANGED << clock, mIdx, topCandidates, i, enriched, results, file,
                    apiCallCount, outstanding, log, persisted, fileBefore, gapOk,
                    metricsIn >>
    /\ UNCHANGED requestsIssued
    /\ UNCHANGED pureVars

\* processMarket, lines 40-51: the first two early returns and stage 1.
StageFilter ==
    /\ pc = "filter"
    /\ LET rawListings == allListings
           filteredListings == applyHeuristicFilter(rawListings)
       IN  IF Len(rawListings) = 0
           THEN /\ output' = createMarketOutput(<< >>, Market, clock)
                /\ exitKind' = "noListings"
                /\ pc' = "persist"
                /\ UNCHANGED topCandidates
           ELSE IF Len(filteredListings) = 0
           THEN /\ output' = createMarketOutput(<< >>, Market, clock)
                /\ exitKind' = "noneFiltered"
                /\ pc' = "persist"
                /\ UNCHANGED topCandidates
           ELSE /\ topCandidates' = filteredListings
                /\ pc' = "select"
                /\ UNCHANGED << output, exitKind >>
    /\ UNCHANGED << clock, mIdx, cIdx, allListings, i, enriched, pending, results, file,
                    apiCallCount, outstanding, sinceCall, log, failed, persisted,
                    fileBefore, gapOk, metricsIn >>
    /\ UNCHANGED requestsIssued
    /\ UNCHANGED pureVars

\* processMarket, line 54, and the start of enrichWithRentEstimates.
StageSelect ==
    /\ pc = "select"
    /\ \E selected \in selectTopCandidates(topCandidates) : topCandidates' = selected
    /\ i' = 1
    /\ enriched' = << >>
    /\ pc' = "getRentEstimate"
    /\ UNCHANGED << clock, mIdx, cIdx, allListings, pending, output, results, file,
                    apiCallCount, outstanding, sinceCall, exitKind, log, failed,
                    persisted, fileBefore, gapOk, metricsIn >>
    /\ UNCHANGED requestsIssued
    /\ UNCHANGED pureVars

\* enrichWithRentEstimates takes properties[i] (lines 144-160) and
\* getRentEstimate runs up to `await api.get` (lines 79-88).
GetRentEstimateRequest ==
    /\ pc = "getRentEstimate"
    /\ IssueRequest
    /\ LET property == topCandidates[i]
       IN  log' = [log EXCEPT !.requested = Append(@, property)]
    /\ pc' = "awaitRent"
    /\ UNCHANGED << clock, mIdx, cIdx, allListings, topCandidates, i, enriched, pending,
                    output, results, file, apiCallCount, exitKind, failed,
                    persisted, fileBefore, metricsIn >>
    /\ UNCHANGED pureVars

\* The request resolves (lines 88-92): count it, then await delay().
GetRentEstimateResponse ==
    /\ pc = "awaitRent"
    /\ \E data \in RentData :
          /\ pending' = << data >>
          /\ log' = [log EXCEPT !.rents = Append(@, data)]
    /\ apiCallCount' = apiCallCount + 1
    /\ outstanding' = outstanding - 1
    /\ sinceCall' = "settled"
    /\ pc' = "delayRent"
    /\ UNCHANGED << clock, mIdx, cIdx, allListings, topCandidates, i, enriched, output,
                    results, file, exitKind, failed, persisted, fileBefore, gapOk,
                    metricsIn >>
    /\ UNCHANGED requestsIssued
    /\ UNCHANGED pureVars

\* The rest of enrichWithRentEstimates' loop body for the value
\* getRentEstimate returned (lines 162-177), and the loop's next test.
RentReturned(rentData) ==
    /\ enriched' = IF acceptsRentData(rentData)
                   THEN Append(enriched, withRentEstimate(topCandidates[i], rentData))
                   ELSE enriched
    /\ i' = i + 1
    /\ pc' = IF i < Len(topCandidates) THEN "getRentEstimate" ELSE "metrics"

\* The request rejects (lines 95-101): getRentEstimate returns null at once.
GetRentEstimateError ==
    /\ pc = "awaitRent"
    /\ log' = [log EXCEPT !.rents = Append(@, RentFailure)]
    /\ outstanding' = outstanding - 1
    /\ sinceCall' = "settled"
    /\ RentReturned([kind |-> "null", rent |-> Undefined])
    /\ UNCHANGED << clock, mIdx, cIdx, allListings, topCandidates, pending, output,
                    results, file, apiCallCount, exitKind, failed, persisted,
                    fileBefore, gapOk, metricsIn >>
    /\ UNCHANGED requestsIssued
    /\ UNCHANGED pureVars

\* delay() is over (lines 92-94): getRentEstimate returns response.data.
GetRentEstimateDelayed ==
    /\ pc = "delayRent"
    /\ sinceCall' = "paused"
    /\ pending' = << >>
    /\ RentReturned(pending[1])
    /\ UNCHANGED << clock, mIdx, cIdx, allListings, topCandidates, output, results, file,
                    apiCallCount, outstanding, exitKind, log, failed, persisted,
                    fileBefore, gapOk, metricsIn >>
    /\ UNCHANGED requestsIssued
    /\ UNCHANGED pureVars

\* processMarket, lines 59-65: the third early return and stage 3.
StageMetrics ==
    /\ pc = "metrics"
    /\ LET withRentEstimates == enriched
       IN  IF Len(withRentEstimates) = 0
           THEN /\ output' = createMarketOutput(<< >>, Market, clock)
                /\ exitKind' = "noRentEstimates"
                /\ pc' = "persist"
                /\ UNCHANGED << enriched, metricsIn >>
           ELSE /\ metricsIn' = withRentEstimates
                /\ enriched' = calculateInvestmentMetrics(withRentEstimates)
                /\ pc' = "rank"
                /\ UNCHANGED << output, exitKind >>
    /\ UNCHANGED << clock, mIdx, cIdx, allListings, topCandidates, i, pending, results,
                    file, apiCallCount, outstanding, sinceCall, log, failed, persisted,
                    fileBefore, gapOk >>
    /\ UNCHANGED requestsIssued
    /\ UNCHANGED pureVars

\* processMarket, lines 68-71: stage 4 and the output.
StageRank ==
    /\ pc = "rank"
    /\ LET topDeals == rankAndSelectTopDeals(enriched)
       IN  /\ enriched' = topDeals
           /\ output' = createMarketOutput(topDeals, Market, clock)
    /\ exitKind' = "deals"
    /\ pc' = "persist"
    /\ UNCHANGED << clock, mIdx, cIdx, allListings, topCandidates, i, pending, results,
                    file, apiCallCount, outstanding, sinceCall, log, failed, persisted,
                    fileBefore, gapOk, metricsIn >>
    /\ UNCHANGED requestsIssued
    /\ UNCHANGED pureVars

\* main, lines 129-136: record the result, validate it, write the file.
Persist ==
    /\ pc = "persist"
    /\ results' = [m \in (DOMAIN results) \cup { Market.id } |->
                      IF m = Market.id THEN output ELSE results[m]]
    /\ LET validatedOutput == validateOutput(output, file[Market.id])
       IN  file' = [file EXCEPT ![Market.id] = writeOutput(validatedOutput)]
    /\ persisted' = Append(persisted, Market.id)
    /\ IF mIdx < Len(markets)
       THEN mIdx' = mIdx + 1 /\ pc' = "processMarket"
       ELSE mIdx' = mIdx /\ pc' = "summary"
    /\ UNCHANGED << clock, cIdx, allListings, topCandidates, i, enriched, pending, output,
                    apiCallCount, outstanding, sinceCall, exitKind, log, failed,
                    fileBefore, gapOk, metricsIn >>
    /\ UNCHANGED requestsIssued
    /\ UNCHANGED pureVars

\* main, lines 139-165: the summary is printed and the process ends; only
\* the files outlive it.
Summary ==
    /\ pc = "summary"
    /\ pc' = "idle"
    /\ mIdx' = 1
    /\ cIdx' = 1
    /\ allListings' = << >>
    /\ topCandidates' = << >>
    /\ i' = 1
    /\ enriched' = << >>
    /\ pending' = << >>
    /\ output' = << >>
    /\ results' = << >>
    /\ apiCallCount' = 0
    /\ outstanding' = 0
    /\ sinceCall' = "none"
    /\ exitKind' = "none"
    /\ log' = EmptyLog
    /\ failed' = {}
    /\ persisted' = << >>
    /\ fileBefore' = file
    /\ gapOk' = TRUE
    /\ metricsIn' = << >>
    /\ UNCHANGED << clock, file >>
    /\ requestsIssued' = 0
    /\ UNCHANGED pureVars

Next ==
    \/ StartRun
    \/ ProcessMarket
    \/ GetListingsRequest
    \/ GetListingsResponse
    \/ GetListingsError
    \/ GetListingsDelayed
    \/ StageFilter
    \/ StageSelect
    \/ GetRentEstimateRequest
    \/ GetRentEstimateResponse
    \/ GetRentEstimateError
    \/ GetRentEstimateDelayed
    \/ StageMetrics
    \/ StageRank
    \/ Persist
    \/ Summary

Spec == Init /\ [][Next]_vars

-----------------------------------------------------------------------------
\* The functions of analyze.js applied on their own to drawn inputs.

Tagged(listing) == Spread(listing, [marketId |-> markets[1].id, marketName |-> markets[1].name])

RawUniverse ==
    { Tagged(l) : l \in { ListingA, ListingB, ListingC, ListingD, ListingE,
                          ListingF, ListingG } }

SeqsUpTo(S, n) == UNION { [1..k -> S] : k \in 0..n }

MetricsUniverse ==
    { investmentMetricsOf(Spread(Tagged(l), [rentEstimate |-> r])) :
        l \in { ListingA, ListingC, ListingF }, r \in { 600, 1800 } }

PureInit ==
    /\ pc = "pure"
    /\ clock = 0
    /\ mIdx = 1
    /\ cIdx = 1
    /\ allListings = << >>
    /\ topCandidates = << >>
    /\ i = 1
    /\ enriched = << >>
    /\ pending = << >>
    /\ output = << >>
    /\ results = << >>
    /\ file = [m \in MarketIds |-> << >>]
    /\ apiCallCount = 0
    /\ outstanding = 0
    /\ sinceCall = "none"
    /\ exitKind = "none"
    /\ log = EmptyLog
    /\ failed = {}
    /\ persisted = << >>
    /\ fileBefore = [m \in MarketIds |-> << >>]
    /\ gapOk = TRUE
    /\ metricsIn = << >>
    /\ requestsIssued = 0
    /\ fop = "none"
    /\ fout = << >>
    /\ \/ fkind = "listings" /\ fin \in SeqsUpTo(RawUniverse, MaxLen)
       \/ fkind = "metrics" /\ fin \in SeqsUpTo(MetricsUniverse, MaxLen)

PureFilter ==
    /\ fop = "none" /\ fkind = "listings"
    /\ fout' = applyHeuristicFilter(fin)
    /\ fop' = "applyHeuristicFilter"
    /\ UNCHANGED << fkind, fin >>
    /\ UNCHANGED progVars

PureSelect ==
    /\ fop = "none" /\ fkind = "listings"
    /\ \E selected \in selectTopCandidates(fin) : fout' = selected
    /\ fop' = "selectTopCandidates"
    /\ UNCHANGED << fkind, fin >>
    /\ UNCHANGED progVars

PureRank ==
    /\ fop = "none" /\ fkind = "metrics"
    /\ fout' = rankAndSelectTopDeals(fin)
    /\ fop' = "rankAndSelectTopDeals"
    /\ UNCHANGED << fkind, fin >>
    /\ UNCHANGED progVars

PureOutput ==
    /\ fop = "none" /\ fkind = "metrics"
    /\ \E k \in 1..Len(markets) : fout' = createMarketOutput(fin, markets[k], 1)
    /\ fop' = "createMarketOutput"
    /\ UNCHANGED << fkind, fin >>
    /\ UNCHANGED progVars

PureNext ==
    \/ PureFilter
    \/ PureSelect
    \/ PureRank
    \/ PureOutput

PureSpec == PureInit /\ [][PureNext]_vars

-----------------------------------------------------------------------------
\* Properties.

HasDeals(f) == f # << >> /\ Len(f[1].deals) > 0

\* An output with no deals and an all-zero summary.
IsEmptyOutput(o) ==
    /\ o.deals = << >>
    /\ o.summary.totalDeals = 0
    /\ o.summary.avgGrossYield = Zero
    /\ o.summary.avgPrice = 0
    /\ o.summary.avgMonthlyRent = 0
    /\ o.summary.topYield = Zero
    /\ o.summary.lowestPrice = 0

\* The elements of s at the positions K, in order.
RECURSIVE PickAt(_, _)
PickAt(s, K) ==
    IF s = << >> THEN << >>
    ELSE PickAt(Front(s), K) \o (IF Len(s) \in K THEN << s[Len(s)] >> ELSE << >>)

ConfigOrder == [k \in 1..Len(markets) |-> markets[k].id]

\* The output computed for a market in this run has no deals although its
\* file held deals when the run started: the file is what it was.
C1_KeptWhenEmpty ==
    \A m \in DOMAIN results :
        (HasDeals(fileBefore[m]) /\ Len(results[m].deals) = 0) => file[m] = fileBefore[m]

\* A step never turns a file that holds deals into one that holds none.
C1_NeverBlanked ==
    \A m \in MarketIds : HasDeals(file[m]) => HasDeals(file'[m])

\* C1, stale-data safeguard.  For every market written in the current run:
\* if its file held deals when the run started and the output computed for
\* it in this run has none, the file holds exactly what it held before.  And
\* over every step, a file that holds at least one deal still holds at least
\* one deal afterwards.
C1_StaleDataSafeguard == [](C1_KeptWhenEmpty) /\ [][C1_NeverBlanked]_vars

\* C1 witness: in the second run a market with deals on file computed an
\* empty output, and its file of the first run is still there.
C1_Witness ==
    \E m \in DOMAIN results :
        /\ HasDeals(fileBefore[m])
        /\ Len(results[m].deals) = 0
        /\ file[m] = fileBefore[m]
        /\ file[m][1].lastUpdated < clock

\* What processMarket returns for a market, as a function of the responses
\* the API gave for that market alone (lg.listings: one per city asked,
\* lg.rents: one per candidate asked).
ExpectedOutput(market, lg, now) ==
    LET empty == createMarketOutput(<< >>, market, now)
        arrays == [k \in 1..Len(lg.listings) |->
                      IF lg.listings[k].kind = "array"
                      THEN enrichedListings(lg.listings[k].items, market) ELSE << >>]
        raw == IF Len(arrays) = 2 THEN arrays[1] \o arrays[2]
               ELSE IF Len(arrays) = 1 THEN arrays[1] ELSE << >>
        filtered == applyHeuristicFilter(raw)
        candidates == CHOOSE c \in selectTopCandidates(filtered) : TRUE
        accepted == { k \in 1..Len(candidates) : acceptsRentData(lg.rents[k]) }
        withRent == [k \in 1..Len(candidates) |->
                        IF k \in accepted
                        THEN withRentEstimate(candidates[k], lg.rents[k])
                        ELSE candidates[k]]
        withRentEstimates == PickAt(withRent, accepted)
    IN  IF \E k \in 1..Len(lg.listings) : lg.listings[k].kind = "object" THEN empty
        ELSE IF raw = << >> \/ filtered = << >> THEN empty
        ELSE IF withRentEstimates = << >> THEN empty
        ELSE createMarketOutput(
                 rankAndSelectTopDeals(calculateInvestmentMetrics(withRentEstimates)),
                 market, now)

\* C2, per-market failure isolation.  A market whose pipeline raised an
\* error gets an empty output; whatever failed before it, each market's
\* output is what its own responses determine; every market processed is
\* recorded and persisted, in configuration order; and when the run ends
\* all configured markets have been.
C2_FailureIsolation ==
    /\ (pc = "persist" /\ markets[mIdx].id \in failed) => IsEmptyOutput(output)
    /\ pc = "persist" => output = ExpectedOutput(markets[mIdx], log, clock)
    /\ persisted = SubSeq(ConfigOrder, 1, Len(persisted))
    /\ DOMAIN results = { persisted[k] : k \in 1..Len(persisted) }
    /\ \A m \in DOMAIN results :
          file[m] = writeOutput(validateOutput(results[m], fileBefore[m]))
    /\ pc = "summary" => persisted = ConfigOrder

\* C2 witness: the run ends, the first market failed, and the second one
\* still has its deals recorded and on file.
C2_Witness ==
    /\ pc = "summary"
    /\ failed = { markets[1].id }
    /\ IsEmptyOutput(results[markets[1].id])
    /\ Len(results[markets[2].id].deals) > 0
    /\ file[markets[2].id] = << results[markets[2].id] >>

\* The condition C3 states, in integers: price and square footage present
\* and non-zero, and (S * heuristicRentPerSqft * 12) / P * 100 >= minYieldThreshold.
C3_Passes(listing) ==
    /\ listing.price # Undefined /\ listing.price # 0
    /\ listing.squareFootage # Undefined /\ listing.squareFootage # 0
    /\ listing.squareFootage * heuristicRentPerSqft * 12 * 100
          >= minYieldThreshold * listing.price

IsSelectionOf(result, s, K) == result \in Perms(PickAt(s, K))

\* C4 as stated, for the inputs that satisfy inputOk: at most
\* maxPropertiesToAnalyze listings come back, each adjacent pair in
\* descending heuristic yield (>=), and they are listings of the input such
\* that no listing left out has a strictly greater heuristic yield than one
\* that is included.
C4_TopCandidates(inputOk) ==
    (fop = "selectTopCandidates" /\ inputOk) =>
        /\ Len(fout) <= maxPropertiesToAnalyze
        /\ \A k \in 1..(Len(fout) - 1) :
              GE(fout[k].heuristicYield, fout[k + 1].heuristicYield)
        /\ \E K \in SUBSET (1..Len(fin)) :
              /\ IsSelectionOf(fout, withHeuristicYield(fin), K)
              /\ \A j \in (1..Len(fin)) \ K, k \in K :
                    ~GT(heuristicYieldOf(fin[j]), heuristicYieldOf(fin[k]))

\* C4, the claim as stated: for every input sequence.
C4_AnyInput == C4_TopCandidates(TRUE)

\* C4, amended: for every input sequence whose listings all have a square
\* footage (which the output of applyHeuristicFilter always does), the
\* result has at most maxPropertiesToAnalyze listings, is sorted by
\* heuristic yield descending and holds the highest-yield listings.
C4_WithSquareFootage ==
    C4_TopCandidates(\A k \in 1..Len(fin) : fin[k].squareFootage # Undefined)

\* C4 witness: three listings with square footage, the last one with the
\* highest yield; it comes back first and the lowest one is cut.
C4_Witness ==
    /\ fop = "selectTopCandidates"
    /\ \A k \in 1..Len(fin) : fin[k].squareFootage # Undefined
    /\ Len(fin) = 3
    /\ Len(fout) = 2
    /\ fout[1].id = fin[3].id
    /\ GT(fout[1].heuristicYield, fout[2].heuristicYield)
    /\ GT(fout[2].heuristicYield, heuristicYieldOf(fin[1]))

C6_Ranks ==
    fop = "createMarketOutput" =>
        /\ Len(fout.deals) = Len(fin)
        /\ \A k \in 1..Len(fin) :
              fout.deals[k].rank = k /\ fout.deals[k].id = fin[k].id
        /\ fout.summary.totalDeals = Len(fin)

\* C6 witness: an output built from three deals.
C6_Witness ==
    /\ fop = "createMarketOutput"
    /\ Len(fin) = 3
    /\ fout.deals[3].rank = 3
    /\ fout.summary.totalDeals = 3

EarlyExits == { "noListings", "noneFiltered", "noRentEstimates", "error" }

\* C7: createMarketOutput of no deals is the empty output (no deals,
\* totalDeals 0, every other summary number 0), for every market; and that
\* is what processMarket returns on each of its early exits.
C7_EmptyOutput ==
    /\ \A k \in 1..Len(markets) :
          IsEmptyOutput(createMarketOutput(<< >>, markets[k], clock))
    /\ (pc = "persist" /\ exitKind \in EarlyExits) =>
          /\ IsEmptyOutput(output)
          /\ output.market.id = markets[mIdx].id

\* C7 witness: two candidates were selected, no rent estimate was accepted,
\* and processMarket returned the empty output.
C7_Witness ==
    /\ pc = "persist"
    /\ exitKind = "noRentEstimates"
    /\ Len(topCandidates) = 2
    /\ IsEmptyOutput(output)

EnrichPositions == { "getRentEstimate", "awaitRent", "delayRent", "metrics" }

\* C8: while enrichWithRentEstimates runs and when it returns, its result
\* is made of the candidates handled so far at some positions K, in
\* candidate order, each with the rent of its own lookup attached, and every
\* position of K is one whose lookup returned a record with a rent present
\* (so not a failed lookup, not null, not a record without rent).
C8_OnlyWithRent ==
    pc \in EnrichPositions =>
        \E K \in SUBSET (1..(i - 1)) :
            /\ \A k \in K :
                  log.rents[k].kind = "object" /\ log.rents[k].rent # Undefined
            /\ enriched =
                  PickAt([k \in 1..(i - 1) |->
                            IF k \in K
                            THEN Spread(topCandidates[k],
                                        [rentEstimate |-> log.rents[k].rent])
                            ELSE topCandidates[k]], K)

\* C8 witness: of two different candidates the first lookup failed and the
\* second returned a rent; only the second candidate is in the result.
C8_Witness ==
    /\ pc = "metrics"
    /\ Len(topCandidates) = 2
    /\ topCandidates[1].id # topCandidates[2].id
    /\ log.rents[1].kind = "error"
    /\ log.rents[2].kind = "object" /\ log.rents[2].rent = 1800
    /\ Len(enriched) = 1
    /\ enriched[1].id = topCandidates[2].id
    /\ enriched[1].rentEstimate = 1800

\* C9: every listing handed to calculateInvestmentMetrics has a price that
\* is present and strictly positive, and a rent estimate attached.
C9_MetricsInput ==
    \A k \in 1..Len(metricsIn) :
        /\ metricsIn[k].price # Undefined
        /\ metricsIn[k].price > 0
        /\ "rentEstimate" \in DOMAIN metricsIn[k]
        /\ metricsIn[k].rentEstimate # Undefined

\* C9 witness: calculateInvestmentMetrics was called with two listings, out
\* of raw listings of which one had no price and one no square footage.
C9_Witness ==
    /\ pc = "rank"
    /\ Len(metricsIn) = 2
    /\ \E k \in 1..Len(log.listings) :
          /\ log.listings[k].kind = "array"
          /\ \E n \in 1..Len(log.listings[k].items) :
                log.listings[k].items[n].price = Undefined

\* C10: every api.get was issued after the pause that follows the request
\* before it, whether that request succeeded or failed, and at no time is
\* more than one request in flight.
C10_PauseAfterEveryCall == gapOk /\ outstanding <= 1

-----------------------------------------------------------------------------
\* Positions of processMarket at which `log` belongs to the market at mIdx.
InMarket ==
    { "getListings", "awaitListings", "delayListings", "filter", "select",
      "getRentEstimate", "awaitRent", "delayRent", "metrics", "rank", "persist" }

ListingPositions == { "getListings", "awaitListings", "delayListings" }

\* enrichWithRentEstimates has returned to processMarket.
EnrichmentOver ==
    \/ pc \in { "metrics", "rank" }
    \/ pc = "persist" /\ exitKind \in { "deals", "noRentEstimates" }

\* C11: within a market, no rent estimate is requested while listings are
\* still being queried, and once one is requested every city of the market
\* has been answered and nothing is in flight; the properties requested so
\* far are the first candidates of selectTopCandidates' result, position by
\* position (one request each, the next candidate after a failure as after
\* a success), every one of them a returned listing that passes the
\* heuristic filter; every request has had its one answer or is in flight;
\* when enrichment is over every candidate was requested once; and the
\* number of requests never exceeds maxPropertiesToAnalyze.
C11_EnrichmentRequests ==
    pc \in InMarket =>
        /\ pc \in ListingPositions => log.requested = << >>
        /\ log.requested # << >> => Len(log.listings) = Len(Market.cities)
        /\ pc = "getRentEstimate" => outstanding = 0
        /\ Len(log.requested) <= Len(topCandidates)
        /\ \A k \in 1..Len(log.requested) :
              /\ log.requested[k] = topCandidates[k]
              /\ C3_Passes(log.requested[k])
              /\ \E n \in 1..Len(allListings) :
                    log.requested[k] =
                        Spread(allListings[n],
                               [heuristicYield |-> heuristicYieldOf(allListings[n])])
        /\ pc \in EnrichPositions =>
              Len(log.requested) = Len(log.rents) + (IF pc = "awaitRent" THEN 1 ELSE 0)
        /\ EnrichmentOver => Len(log.requested) = Len(topCandidates)
        /\ Len(log.requested) <= maxPropertiesToAnalyze

\* C11 witness: enrichment is over for a market with more listings passing
\* the filter than the cap and one listing failing it; the first lookup
\* failed, and the requests made are one per candidate, as many as the cap.
C11_Witness ==
    /\ pc = "metrics"
    /\ Len(applyHeuristicFilter(allListings)) > maxPropertiesToAnalyze
    /\ \E n \in 1..Len(allListings) : ~C3_Passes(allListings[n])
    /\ Len(log.requested) = maxPropertiesToAnalyze
    /\ Len(log.rents) = maxPropertiesToAnalyze
    /\ log.rents[1].kind = "error"

-----------------------------------------------------------------------------
\* The summary of a MarketOutput agrees with its deals.
SummaryConsistent(o) ==
    /\ \A k \in 1..Len(o.deals) : GE(o.summary.topYield, o.deals[k].grossYield)
    /\ \A k \in 1..Len(o.deals) : o.summary.lowestPrice <= o.deals[k].price
    /\ \E k \in 1..Len(o.deals) : o.summary.lowestPrice = o.deals[k].price

\* C12: every non-empty output processMarket returned, the one in hand and
\* the ones main has recorded, has a topYield that is at least the gross
\* yield of each of its deals and a lowestPrice that is at most the price of
\* each deal and is the price of one of them; and the deals of the output in
\* hand are the deals rankAndSelectTopDeals returned, in that order.
C12_SummaryConsistency ==
    /\ exitKind = "deals" =>
          /\ Len(output.deals) > 0
          /\ SummaryConsistent(output)
          /\ Len(output.deals) = Len(enriched)
          /\ \A k \in 1..Len(enriched) :
                output.deals[k] = formatDealForOutput(enriched[k], k)
    /\ \A m \in DOMAIN results :
          Len(results[m].deals) > 0 => SummaryConsistent(results[m])

\* C12 witness: processMarket returned two deals, ranked in the opposite
\* order of the candidates they come from, with different prices and
\* different yields.
C12_Witness ==
    /\ pc = "persist"
    /\ exitKind = "deals"
    /\ Len(output.deals) = 2
    /\ output.deals[1].id = topCandidates[2].id
    /\ output.deals[2].id = topCandidates[1].id
    /\ output.deals[1].price # output.deals[2].price
    /\ GT(output.deals[1].grossYield, output.deals[2].grossYield)

-----------------------------------------------------------------------------
\* C13: the counter is 0 when the run starts and before its first request,
\* and whenever no request is in flight it equals the number of api.get
\* calls made so far in the run, failed ones included; so does the count
\* main reads for its summary.
C13_CallCounterAccuracy ==
    /\ requestsIssued = 0 => apiCallCount = 0
    /\ outstanding = 0 => apiCallCount = requestsIssued
    /\ pc = "summary" => apiCallCount = requestsIssued

-----------------------------------------------------------------------------
\* The deals of a MarketOutput have a non-zero annual rent and a finite grm.
GrmDefined(deals) ==
    \A k \in 1..Len(deals) :
        /\ deals[k].estAnnualRent # 0
        /\ IsFinite(deals[k].grm)

\* C14: every listing calculateInvestmentMetrics was called with has a rent
\* estimate that is present and strictly positive; the listings it returned
\* have a non-zero annualRent and a finite grm; and so has every deal of the
\* output in hand, of the outputs main has recorded and of the files.
C14_PositiveRent ==
    /\ \A k \in 1..Len(metricsIn) :
          /\ metricsIn[k].rentEstimate # Undefined
          /\ metricsIn[k].rentEstimate > 0
    /\ pc = "rank" =>
          \A k \in 1..Len(enriched) :
              /\ enriched[k].annualRent # 0
              /\ IsFinite(enriched[k].grm)
    /\ exitKind # "none" => GrmDefined(output.deals)
    /\ \A m \in DOMAIN results : GrmDefined(results[m].deals)
    /\ \A m \in MarketIds : file[m] # << >> => GrmDefined(file[m][1].deals)

\* C14 witness: of two candidates one lookup answered a rent of 0 and the
\* other a positive rent; only the latter reached calculateInvestmentMetrics
\* and it is the one deal of the output, with a finite grm.
C14_Witness ==
    /\ pc = "persist"
    /\ exitKind = "deals"
    /\ Len(log.rents) = 2
    /\ \E k \in 1..2 : log.rents[k].kind = "object" /\ log.rents[k].rent = 0
    /\ Len(metricsIn) = 1
    /\ metricsIn[1].rentEstimate = 1800
    /\ Len(output.deals) = 1
    /\ IsFinite(output.deals[1].grm)

====
